---- MODULE Spec2Model ----
(***************************************************************************)
(* Model of my_model_selectors.py: the ModelSelector strategies            *)
(* SelectorConstant, SelectorBIC, SelectorDIC and SelectorCV.              *)
(*                                                                         *)
(* One behaviour is one call of select() on one selector instance.  The    *)
(* external collaborators (GaussianHMM.fit / .score, KFold,                *)
(* combine_sequences) are the environment: every fit either succeeds or    *)
(* raises, every score is a log-likelihood drawn from LLVals (fixed-point  *)
(* units) or, inside the cross-validation folds, raises.  Fitting is       *)
(* deterministic for a fixed random_state, so the outcome of fitting the   *)
(* target word with n states is remembered in fitRes.                      *)
(*                                                                         *)
(* Floating point scores are modelled as exact rationals num/den.          *)
(***************************************************************************)
EXTENDS Integers, FiniteSets, Sequences, TLC

\* ---------------------------------------------------------------- bounds
\* Largest value of max_n_components and n_constant explored.
MaxN == 4
\* Smallest value of min_n_components explored (the constructor's default).
MinN == 2
\* Largest corpus (number of words, the target word included).
MaxWords == 3
\* Largest number of sequences of the target word.
MaxSeq == 4
\* Largest feature dimension len(X[0]).
MaxD == 2
\* Largest value of log(len(X)), in the units of LLVals.
MaxLogN == 2
\* Log-likelihood values a score may return (fixed-point units).
LLVals == {-3, 0, 3}
\* KFold() default number of splits.
n_splits == 3

\* Values of n_constant explored: the constructor's default, and 1, which lies
\* below every range.
NConstants == {1, 3}

Strategies == {"Constant", "BIC", "DIC", "CV"}

VARIABLES
    strategy,                   \* which subclass select() is called on
    min_n_components, max_n_components, n_constant,
    D,                          \* len(self.X[0])
    logN,                       \* np.log(len(self.X))
    numSeq,                     \* len(self.sequences)
    numWords,                   \* len(self.words)
    pc,                         \* position inside select()
    num_states,                 \* loop variable of the sweep
    best_score,                 \* best_score / best_score_so_far
    best_model_so_far,          \* BIC, CV
    best_number_of_components,  \* DIC
    log_likelihood_of_i,        \* DIC
    widx,                       \* DIC: index of the next other word
    accumulated,                \* DIC: accumulated_log_likelihood_of_all_words_except_i
    number_of_words,            \* DIC
    fold,                       \* CV: index of the next fold
    sum_log_likelihood,         \* CV
    count_log_likelihood,       \* CV
    model,                      \* CV: model of the last fold
    result,                     \* value returned by select()
    fitRes,                     \* environment: outcome of fitting the target word with n states
    \* history variables
    evaluated,                  \* candidates whose loop iteration has run
    scored,                     \* BIC: the (n, logL, score) triples that were compared
    maxFull,                    \* DIC: maximum over candidates of the complete-accumulation score
    selFull,                    \* DIC: complete-accumulation score of the selected candidate
    zeroDiv,                    \* DIC: candidates whose denominator reached zero
    trueSum,                    \* CV: sum of the valid fold log-likelihoods of this candidate
    foldVals,                   \* CV: set of valid fold log-likelihoods of this candidate
    fitLog,                     \* CV: (training subset, data fitted on) of every scored fold
    refScore, refBest, refNumber \* the same sweep over the range without the failing candidates

config == <<strategy, min_n_components, max_n_components, n_constant, D, logN, numSeq, numWords>>
sweep == <<pc, num_states, best_score, best_model_so_far, best_number_of_components, result, fitRes>>
dicvars == <<log_likelihood_of_i, widx, accumulated, number_of_words>>
cvvars == <<fold, sum_log_likelihood, count_log_likelihood, model>>
history == <<evaluated, scored, maxFull, selFull, zeroDiv, trueSum, foldVals, fitLog,
             refScore, refBest, refNumber>>
vars == <<config, sweep, dicvars, cvvars, history>>

\* ------------------------------------------------------------ arithmetic
Abs(x) == IF x < 0 THEN -x ELSE x

RECURSIVE Gcd(_, _)
Gcd(a, b) == IF b = 0 THEN a ELSE Gcd(b, a % b)

\* A float: -inf, +inf or the rational num/den in lowest terms, den > 0.
NegInf == [inf |-> -1, num |-> 0, den |-> 1]
PosInf == [inf |-> 1, num |-> 0, den |-> 1]
Fin(n, d) ==
    LET g == IF n = 0 THEN d ELSE Gcd(Abs(n), d)
    IN  [inf |-> 0, num |-> n \div g, den |-> d \div g]

\* a < b on floats
Less(a, b) ==
    IF a.inf # b.inf THEN a.inf < b.inf
    ELSE IF a.inf # 0 THEN FALSE
    ELSE a.num * b.den < b.num * a.den

\* --------------------------------------------------------------- models
\* The target word's full data set and a fitted model (state count, data fitted on).
FullX == 0 .. (numSeq - 1)
None == [n |-> 0, X |-> {}]
Hmm(n) == [n |-> n, X |-> FullX]

\* base_model(num_states) when the fitter's outcome is r: the model fitted on
\* self.X, self.lengths, or None when the fit raised.
base_model(n, r) == IF r = "ok" THEN Hmm(n) ELSE None

\* The outcomes the fitter can have for n states on the target word's data.
FitOutcomes(n) == IF fitRes[n] = "unknown" THEN {"ok", "fail"} ELSE {fitRes[n]}

Remember(n, r) == [fitRes EXCEPT ![n] = r]

\* Mutant of Candidates: the sweep runs one candidate past max_n_components.
CandidatesOffByOne == min_n_components .. (max_n_components + 1)

\* range(self.min_n_components, self.max_n_components + 1)
Candidates == min_n_components .. max_n_components

\* Mutant of ExceptContinue: the except clause leaves the loop ("break").
ExceptBreak(n) == max_n_components + 1

\* "except: ... continue": the sweep goes on with the next candidate.
ExceptContinue(n) == n + 1


\* ----------------------------------------------------------------- Init
InitCommon ==
    /\ min_n_components \in MinN .. MaxN
    /\ max_n_components \in min_n_components .. MaxN
    /\ n_constant \in NConstants
    /\ pc = "loop"
    /\ num_states = min_n_components
    /\ best_score = IF strategy = "BIC" THEN PosInf ELSE NegInf
    /\ refScore = best_score
    /\ best_model_so_far = None
    /\ refBest = None /\ refNumber = 0
    /\ best_number_of_components = 0
    /\ log_likelihood_of_i = 0 /\ widx = 1 /\ accumulated = 0 /\ number_of_words = 0
    /\ fold = 0 /\ sum_log_likelihood = 0 /\ count_log_likelihood = 0 /\ model = None
    /\ result = None
    /\ fitRes = [n \in 1 .. (MaxN + 1) |-> "unknown"]
    /\ evaluated = {} /\ scored = {} /\ zeroDiv = {} /\ fitLog = {}
    /\ maxFull = NegInf /\ selFull = NegInf
    /\ trueSum = 0 /\ foldVals = {}

\* Fields a strategy never reads are fixed to one value.
Init ==
    /\ strategy \in Strategies
    /\ IF strategy = "BIC" THEN D \in 1 .. MaxD /\ logN \in 0 .. MaxLogN
                           ELSE D = 1 /\ logN = 0
    /\ IF strategy = "CV" THEN numSeq \in 1 .. MaxSeq ELSE numSeq = 1
    /\ IF strategy = "DIC" THEN numWords \in 1 .. MaxWords ELSE numWords = 1
    /\ InitCommon

\* ------------------------------------------------------- best-so-far rules
\* Mutant of KeepLower: "<=" for "<", a later candidate wins a tie.
KeepLowerOrEqual(score, m, bs, bm) == IF Less(bs, score) THEN <<bs, bm>> ELSE <<score, m>>

\* "if score < best_score: best_score = score; best_model_so_far = model"
KeepLower(score, m, bs, bm) == IF Less(score, bs) THEN <<score, m>> ELSE <<bs, bm>>

\* "if score > best_score_so_far: best_score_so_far = score; best... = ..."
KeepHigher(score, m, bs, bm) == IF Less(bs, score) THEN <<score, m>> ELSE <<bs, bm>>

\* Mutant of FallbackStates: the fallback fits min_n_components states.
FallbackStatesMin == min_n_components

\* The state count of the fallback: "return self.base_model(self.n_constant)"
FallbackStates == n_constant

\* ------------------------------------------------------- SelectorConstant
ConstantSelect ==
    /\ strategy = "Constant" /\ pc = "loop"
    /\ \E r \in FitOutcomes(n_constant) :
          /\ result' = base_model(n_constant, r)
          /\ fitRes' = Remember(n_constant, r)
    /\ pc' = "done"
    /\ UNCHANGED <<config, num_states, best_score, best_model_so_far,
                   best_number_of_components, dicvars, cvvars, history>>

\* ------------------------------------------------------------ SelectorBIC
\* p = num_states * (num_states - 1) + 2 * len(self.X[0]) * num_states
FreeParams(n) == n * (n - 1) + 2 * D * n

\* score = -2 * model.score(self.X, self.lengths) + p * np.log(len(self.X))
BICScore(n, ll) == Fin(-2 * ll + FreeParams(n) * logN, 1)

\* One iteration of the sweep whose fit succeeded.
BICEvaluate ==
    /\ strategy = "BIC" /\ pc = "loop" /\ num_states \in Candidates
    /\ "ok" \in FitOutcomes(num_states)
    /\ \E ll \in LLVals :
          LET m == base_model(num_states, "ok")
              score == BICScore(num_states, ll)
              new == KeepLower(score, m, best_score, best_model_so_far)
              ref == KeepLower(score, m, refScore, refBest)
          IN  /\ best_score' = new[1] /\ best_model_so_far' = new[2]
              /\ refScore' = ref[1] /\ refBest' = ref[2]
              /\ scored' = scored \cup {[n |-> num_states, ll |-> ll, score |-> score]}
    /\ fitRes' = Remember(num_states, "ok")
    /\ evaluated' = evaluated \cup {num_states}
    /\ num_states' = num_states + 1
    /\ UNCHANGED <<config, pc, best_number_of_components, result, dicvars, cvvars,
                   maxFull, selFull, zeroDiv, trueSum, foldVals, fitLog, refNumber>>

\* base_model returned None: None.score raises and the except clause continues.
BICExcept ==
    /\ strategy = "BIC" /\ pc = "loop" /\ num_states \in Candidates
    /\ "fail" \in FitOutcomes(num_states)
    /\ fitRes' = Remember(num_states, "fail")
    /\ evaluated' = evaluated \cup {num_states}
    /\ num_states' = ExceptContinue(num_states)
    /\ UNCHANGED <<config, pc, best_score, best_model_so_far, best_number_of_components,
                   result, dicvars, cvvars, scored, maxFull, selFull, zeroDiv, trueSum,
                   foldVals, fitLog, refScore, refBest, refNumber>>

\* After the loop of SelectorBIC and SelectorCV:
\* "if not best_model_so_far: return self.base_model(self.n_constant)"
ReturnBestModel ==
    /\ strategy \in {"BIC", "CV"} /\ pc = "loop" /\ num_states \notin Candidates
    /\ IF best_model_so_far = None
       THEN \E r \in FitOutcomes(FallbackStates) :
               /\ result' = base_model(FallbackStates, r)
               /\ fitRes' = Remember(FallbackStates, r)
       ELSE /\ result' = best_model_so_far
            /\ fitRes' = fitRes
    /\ pc' = "done"
    /\ UNCHANGED <<config, num_states, best_score, best_model_so_far,
                   best_number_of_components, dicvars, cvvars, history>>


\* ------------------------------------------------------------ SelectorDIC
\* words = list(self.words.keys()); words.remove(self.this_word)
OtherWords == 1 .. (numWords - 1)

\* score = log_likelihood_of_i - accumulated / (number_of_words - 1), denominator d > 0
DICScore(li, acc, d) == Fin(li * d - acc, d)

\* The target word's fit and score succeeded: the loop over the other words starts.
DICTarget ==
    /\ strategy = "DIC" /\ pc = "loop" /\ num_states \in Candidates
    /\ "ok" \in FitOutcomes(num_states)
    /\ fitRes' = Remember(num_states, "ok")
    /\ \E ll \in LLVals : log_likelihood_of_i' = ll
    /\ number_of_words' = numWords
    /\ accumulated' = 0
    /\ widx' = 1
    /\ pc' = "others"
    /\ evaluated' = evaluated \cup {num_states}
    /\ UNCHANGED <<config, num_states, best_score, best_model_so_far,
                   best_number_of_components, result, cvvars, scored, maxFull, selFull,
                   zeroDiv, trueSum, foldVals, fitLog, refScore, refBest, refNumber>>

\* base_model returned None for the target word: the outer except clause continues.
DICTargetExcept ==
    /\ strategy = "DIC" /\ pc = "loop" /\ num_states \in Candidates
    /\ "fail" \in FitOutcomes(num_states)
    /\ fitRes' = Remember(num_states, "fail")
    /\ evaluated' = evaluated \cup {num_states}
    /\ num_states' = ExceptContinue(num_states)
    /\ UNCHANGED <<config, pc, best_score, best_model_so_far, best_number_of_components,
                   result, dicvars, cvvars, scored, maxFull, selFull, zeroDiv, trueSum,
                   foldVals, fitLog, refScore, refBest, refNumber>>

\* The accumulator and the word count after one other word: its fit and score
\* succeeded with log-likelihood s, or raised (inner except: number_of_words -= 1).
AfterWord(ok, s) ==
    [acc |-> IF ok THEN accumulated + s ELSE accumulated,
     now |-> IF ok THEN number_of_words ELSE number_of_words - 1]

\* One other word, and the score and comparison made inside the same loop body.
DICOther ==
    /\ strategy = "DIC" /\ pc = "others" /\ widx \in OtherWords
    /\ \E ok \in BOOLEAN, s \in LLVals :
          LET a == AfterWord(ok, s)
              d == a.now - 1
          IN  /\ d # 0
              /\ LET score == DICScore(log_likelihood_of_i, a.acc, d)
                     new == KeepHigher(score, num_states, best_score,
                                       best_number_of_components)
                     ref == KeepHigher(score, num_states, refScore, refNumber)
                 IN  /\ best_score' = new[1] /\ best_number_of_components' = new[2]
                     /\ refScore' = ref[1] /\ refNumber' = ref[2]
              /\ accumulated' = a.acc
              /\ number_of_words' = a.now
    /\ widx' = widx + 1
    /\ UNCHANGED <<config, pc, num_states, best_model_so_far, result, fitRes,
                   log_likelihood_of_i, cvvars, evaluated, scored, maxFull, selFull,
                   zeroDiv, trueSum, foldVals, fitLog, refBest>>

\* The denominator number_of_words - 1 is zero: ZeroDivisionError, caught by the
\* outer except clause, which continues with the next candidate.
DICOtherExcept ==
    /\ strategy = "DIC" /\ pc = "others" /\ widx \in OtherWords
    /\ \E ok \in BOOLEAN, s \in LLVals :
          LET a == AfterWord(ok, s)
          IN  /\ a.now - 1 = 0
              /\ accumulated' = a.acc
              /\ number_of_words' = a.now
    /\ zeroDiv' = zeroDiv \cup {num_states}
    /\ selFull' = IF best_number_of_components = num_states THEN NegInf ELSE selFull
    /\ num_states' = ExceptContinue(num_states)
    /\ pc' = "loop"
    /\ UNCHANGED <<config, best_score, best_model_so_far, best_number_of_components,
                   result, fitRes, log_likelihood_of_i, widx, cvvars, evaluated, scored,
                   maxFull, trueSum, foldVals, fitLog, refScore, refBest,
                   refNumber>>

\* The loop over the other words is exhausted: next candidate.  The history
\* variables record the score of the complete accumulation, when there is one.
DICNext ==
    /\ strategy = "DIC" /\ pc = "others" /\ widx \notin OtherWords
    /\ LET d == number_of_words - 1
           full == IF numWords = 1 THEN NegInf
                   ELSE DICScore(log_likelihood_of_i, accumulated, d)
       IN  /\ maxFull' = IF Less(maxFull, full) THEN full ELSE maxFull
           /\ selFull' = IF best_number_of_components = num_states THEN full ELSE selFull
    /\ num_states' = num_states + 1
    /\ pc' = "loop"
    /\ UNCHANGED <<config, best_score, best_model_so_far, best_number_of_components,
                   result, fitRes, dicvars, cvvars, evaluated, scored, zeroDiv, trueSum,
                   foldVals, fitLog, refScore, refBest, refNumber>>

\* "if not best_number_of_components: return self.base_model(self.n_constant)"
\* "return self.base_model(best_number_of_components)"
ReturnBestNumber ==
    /\ strategy = "DIC" /\ pc = "loop" /\ num_states \notin Candidates
    /\ LET n == IF best_number_of_components = 0 THEN FallbackStates
                ELSE best_number_of_components
       IN  \E r \in FitOutcomes(n) :
              /\ result' = base_model(n, r)
              /\ fitRes' = Remember(n, r)
    /\ pc' = "done"
    /\ UNCHANGED <<config, num_states, best_score, best_model_so_far,
                   best_number_of_components, dicvars, cvvars, history>>


\* ------------------------------------------------------------- SelectorCV
\* KFold().split(self.sequences): consecutive test folds, the first
\* numSeq % n_splits of them one element larger; ValueError when there are
\* fewer samples than splits.
FoldSize(i) == (numSeq \div n_splits) + (IF i < numSeq % n_splits THEN 1 ELSE 0)

RECURSIVE FoldStart(_)
FoldStart(i) == IF i = 0 THEN 0 ELSE FoldStart(i - 1) + FoldSize(i - 1)

TestIdx(i) == FoldStart(i) .. (FoldStart(i) + FoldSize(i) - 1)

\* cv_train_idx of fold i; combine_sequences(cv_train_idx, self.sequences) is the
\* data of exactly these sequences.
TrainIdx(i) == FullX \ TestIdx(i)

SplitRaises == numSeq < n_splits

\* The splitter raises when iteration starts: the outer except clause continues.
CVSplitExcept ==
    /\ strategy = "CV" /\ pc = "loop" /\ num_states \in Candidates
    /\ SplitRaises
    /\ sum_log_likelihood' = 0 /\ count_log_likelihood' = 0
    /\ evaluated' = evaluated \cup {num_states}
    /\ num_states' = ExceptContinue(num_states)
    /\ UNCHANGED <<config, pc, best_score, best_model_so_far, best_number_of_components,
                   result, fitRes, dicvars, fold, model, scored, maxFull, selFull,
                   zeroDiv, trueSum, foldVals, fitLog, refScore, refBest,
                   refNumber>>

CVSplit ==
    /\ strategy = "CV" /\ pc = "loop" /\ num_states \in Candidates
    /\ ~SplitRaises
    /\ sum_log_likelihood' = 0 /\ count_log_likelihood' = 0
    /\ fold' = 0
    /\ trueSum' = 0 /\ foldVals' = {}
    /\ evaluated' = evaluated \cup {num_states}
    /\ pc' = "folds"
    /\ UNCHANGED <<config, num_states, best_score, best_model_so_far,
                   best_number_of_components, result, fitRes, dicvars, model, scored,
                   maxFull, selFull, zeroDiv, fitLog, refScore, refBest,
                   refNumber>>

\* One fold whose model was fitted and whose score succeeded:
\* "sum_log_likelihood = model.score(X, lengths); count_log_likelihood += 1"
CVFold ==
    /\ strategy = "CV" /\ pc = "folds" /\ fold < n_splits
    /\ "ok" \in FitOutcomes(num_states)
    /\ fitRes' = Remember(num_states, "ok")
    /\ LET m == base_model(num_states, "ok")
       IN  /\ model' = m
           /\ fitLog' = fitLog \cup {[train |-> TrainIdx(fold), fittedOn |-> m.X]}
    /\ \E s \in LLVals :
          /\ sum_log_likelihood' = s
          /\ trueSum' = trueSum + s
          /\ foldVals' = foldVals \cup {s}
    /\ count_log_likelihood' = count_log_likelihood + 1
    /\ fold' = fold + 1
    /\ UNCHANGED <<config, pc, num_states, best_score, best_model_so_far,
                   best_number_of_components, result, dicvars, evaluated, scored, maxFull,
                   selFull, zeroDiv, refScore, refBest, refNumber>>

\* One fold whose score raised (the model is None, or scoring the fold failed):
\* "except: pass"
CVFoldExcept ==
    /\ strategy = "CV" /\ pc = "folds" /\ fold < n_splits
    /\ \E r \in FitOutcomes(num_states) :
          /\ fitRes' = Remember(num_states, r)
          /\ model' = base_model(num_states, r)
    /\ fold' = fold + 1
    /\ UNCHANGED <<config, pc, num_states, best_score, best_model_so_far,
                   best_number_of_components, result, dicvars, sum_log_likelihood,
                   count_log_likelihood, history>>

\* score = sum_log_likelihood / count_log_likelihood, count > 0
CVScoreOf(sum, count) == Fin(sum, count)

\* After the folds: the score of the candidate and the comparison.
CVScore ==
    /\ strategy = "CV" /\ pc = "folds" /\ fold = n_splits
    /\ count_log_likelihood # 0
    /\ LET score == CVScoreOf(sum_log_likelihood, count_log_likelihood)
           new == KeepHigher(score, model, best_score, best_model_so_far)
           ref == KeepHigher(score, model, refScore, refBest)
       IN  /\ best_score' = new[1] /\ best_model_so_far' = new[2]
           /\ refScore' = ref[1] /\ refBest' = ref[2]
    /\ num_states' = num_states + 1
    /\ pc' = "loop"
    /\ UNCHANGED <<config, best_number_of_components, result, fitRes, dicvars, cvvars,
                   evaluated, scored, maxFull, selFull, zeroDiv, trueSum, foldVals, fitLog,
                   refNumber>>

\* No fold produced a score: 0 / 0 raises ZeroDivisionError, the outer except
\* clause continues.
CVScoreExcept ==
    /\ strategy = "CV" /\ pc = "folds" /\ fold = n_splits
    /\ count_log_likelihood = 0
    /\ num_states' = ExceptContinue(num_states)
    /\ pc' = "loop"
    /\ UNCHANGED <<config, best_score, best_model_so_far, best_number_of_components,
                   result, fitRes, dicvars, cvvars, history>>

\* ----------------------------------------------------------------- Spec
Next ==
    \/ ConstantSelect
    \/ BICEvaluate
    \/ BICExcept
    \/ ReturnBestModel
    \/ DICTarget
    \/ DICTargetExcept
    \/ DICOther
    \/ DICOtherExcept
    \/ DICNext
    \/ ReturnBestNumber
    \/ CVSplitExcept
    \/ CVSplit
    \/ CVFold
    \/ CVFoldExcept
    \/ CVScore
    \/ CVScoreExcept

Spec == Init /\ [][Next]_vars

TypeOK ==
    /\ pc \in {"loop", "others", "folds", "done"}
    /\ num_states \in MinN .. (MaxN + 2)
    /\ best_number_of_components \in 0 .. (MaxN + 1)
    /\ count_log_likelihood \in 0 .. n_splits


\* ---------------------------------------------------------- definitions
\* used by the properties below
Range == min_n_components .. max_n_components
Searching == strategy \in {"BIC", "DIC", "CV"}
Returned == pc = "done"
\* What base_model(n_constant) returns, given the fitter's recorded outcome.
FallbackModel == IF fitRes[n_constant] = "ok" THEN [n |-> n_constant, X |-> FullX] ELSE None

\* The division by zero in SelectorDIC only ever divides the integer 0 (no
\* other word has been accumulated), so it raises ZeroDivisionError; a numpy
\* float accumulator would yield inf or nan instead.
ZeroDivisionDividesZero ==
    (strategy = "DIC" /\ pc = "others" /\ number_of_words - 1 = 0) => accumulated = 0

\* --------------------------------------------------------------- claims

\* C1: for SelectorBIC, SelectorDIC and SelectorCV, select() never returns a
\* null model: when every candidate and the fallback fit fail, the outcome is
\* an error and not a null return value.
C1_NeverReturnsNull == (Returned /\ Searching) => result # None

\* C2 (fallback law): if the fit fails for every candidate of the range and the
\* fit at n_constant succeeds, select() of SelectorBIC, SelectorDIC and
\* SelectorCV returns the model fitted with exactly n_constant states on the
\* target word's data (the fit at n_constant is attempted, and unless it fails
\* its model is the result).
C2_FallbackLaw ==
    (/\ Returned /\ Searching
     /\ \A n \in Range : fitRes[n] = "fail"
     /\ fitRes[n_constant] # "fail")
    => /\ fitRes[n_constant] = "ok"
       /\ result = [n |-> n_constant, X |-> FullX]

C2_Witness ==
    /\ Returned /\ strategy = "CV"
    /\ Cardinality(Range) >= 2
    /\ \A n \in Range : fitRes[n] = "fail"
    /\ fitRes[n_constant] = "ok"
    /\ result.n = n_constant

\* C3: whenever select() of any strategy returns a model, its state count lies
\* in [min_n_components, max_n_components] or equals n_constant.
C3_StateCountInRange ==
    (Returned /\ result # None) => (result.n \in Range \/ result.n = n_constant)

C3_Witness ==
    /\ Returned /\ strategy = "DIC"
    /\ result # None
    /\ result.n = max_n_components
    /\ result.n # n_constant
    /\ min_n_components < max_n_components

\* C4: SelectorBIC.select() returns the model of the candidate with the minimum
\* score -2*logL + p*log(N), p = n*(n-1) + 2*D*n, among exactly the candidates
\* whose fit succeeded; of two fitted candidates with identical log-likelihood
\* the higher n is never the one selected.
C4_BICSelectsMinimum ==
    (Returned /\ strategy = "BIC") =>
        LET fitted == {n \in Range : fitRes[n] = "ok"}
            S(e) == -2 * e.ll + (e.n * (e.n - 1) + 2 * D * e.n) * logN
        IN  /\ {e.n : e \in scored} = fitted
            /\ \A e \in scored : e.score = [inf |-> 0, num |-> S(e), den |-> 1]
            /\ fitted # {} =>
                  \E e \in scored :
                     /\ result = [n |-> e.n, X |-> FullX]
                     /\ \A f \in scored : S(e) <= S(f)
            /\ \A e, f \in scored : (e.ll = f.ll /\ e.n < f.n) => result.n # f.n

C4_Witness ==
    /\ Returned /\ strategy = "BIC"
    /\ \E n \in Range : fitRes[n] = "fail"
    /\ \E e, f \in scored : e.ll = f.ll /\ e.n < f.n /\ result.n = e.n
    /\ logN > 0

\* C5: SelectorDIC.select() returns the candidate with the maximum score, each
\* candidate's score being computed once from the complete accumulation over
\* all other words; no score of a partial accumulation takes part.  Stated for
\* the sweeps in which no denominator reaches zero (that case is C9's).
C5_DICMaximumOfFullScores ==
    (Returned /\ strategy = "DIC" /\ zeroDiv = {}) =>
        IF best_number_of_components = 0 THEN maxFull = NegInf
        ELSE selFull = maxFull

\* C6: in SelectorCV.select() the score of a candidate is the average of the
\* log-likelihoods of the folds that produced a score; when every fold scores
\* the same constant c the candidate's score is c.
C6_CVScoreIsFoldAverage ==
    (strategy = "CV" /\ pc = "folds" /\ fold = n_splits /\ count_log_likelihood # 0) =>
        LET score == CVScoreOf(sum_log_likelihood, count_log_likelihood)
        IN  /\ score = Fin(trueSum, count_log_likelihood)
            /\ \A c \in LLVals : foldVals = {c} => score = Fin(c, 1)

\* C7 (fault isolation): if the target word's fit fails for exactly one
\* candidate n0, every other candidate is still evaluated and select() returns
\* the selection of the same sweep over the range with n0 removed.
C7_FaultIsolation ==
    (/\ Returned /\ Searching
     /\ \E n0 \in Range : /\ fitRes[n0] = "fail"
                          /\ \A n \in Range \ {n0} : fitRes[n] # "fail")
    => /\ evaluated = Range
       /\ best_score = refScore
       /\ best_model_so_far = refBest
       /\ best_number_of_components = refNumber
       /\ result = IF strategy = "DIC"
                   THEN (IF refNumber = 0 THEN FallbackModel
                         ELSE [n |-> refNumber, X |-> FullX])
                   ELSE (IF refBest = None THEN FallbackModel ELSE refBest)

C7_Witness ==
    /\ Returned /\ strategy = "CV"
    /\ max_n_components = min_n_components + 2
    /\ fitRes[min_n_components] = "ok"
    /\ fitRes[min_n_components + 1] = "fail"
    /\ fitRes[max_n_components] = "ok"
    /\ evaluated = Range
    /\ result.n = max_n_components

\* C8: in SelectorCV.select(), when the target word has fewer sequences than
\* the splitter has folds, the failure is absorbed per candidate: the sweep
\* runs through every candidate, nothing is selected, and select() returns
\* base_model(n_constant).
C8_TooFewSequences ==
    (strategy = "CV" /\ numSeq < n_splits) =>
        /\ pc \in {"loop", "done"}
        /\ best_model_so_far = None
        /\ Returned => /\ evaluated = Range
                       /\ fitRes[n_constant] # "unknown"
                       /\ result = FallbackModel

C8_Witness ==
    /\ Returned /\ strategy = "CV" /\ numSeq < n_splits
    /\ Cardinality(Range) >= 3
    /\ evaluated = Range
    /\ result = [n |-> n_constant, X |-> FullX]

\* C9: in SelectorDIC.select(), a candidate whose denominator (count - 1)
\* reaches zero is skipped: no score is recorded for it and it never becomes
\* the selected state count.
C9_ZeroDenominatorSkipped ==
    strategy = "DIC" => best_number_of_components \notin zeroDiv

\* C10: in SelectorCV.select(), the model scored for a fold was fitted on that
\* fold's training sequences only, not on the word's full data set.
C10_FittedOnTrainingFold ==
    \A e \in fitLog : e.fittedOn = e.train

====
